---- MODULE Spec2Model ----
(***************************************************************************)
(* State-machine model of the ESP32-CAM streaming firmware                 *)
(*   ws_esp32cam_stream2/src/main.cpp            (specifications Spec and  *)
(*                                                SpecLive)                *)
(*   ws_esp32cam_stream2/test_connection_simple.cpp (specification         *)
(*                                                SpecSimple)              *)
(*   ws_esp32cam_stream2/test_connection.cpp     (specifications SpecTest  *)
(*                                                and SpecTestLive)        *)
(* setup() and loop() are modelled statement group by statement group; pc  *)
(* is the position of the single control thread.  The WiFi stack, the      *)
(* camera driver and the ArduinoWebsockets client are the environment:     *)
(* their results are chosen nondeterministically from small sets.          *)
(***************************************************************************)
EXTENDS Integers, Sequences, FiniteSets, TLC

VARIABLES
  pc,                 \* position of the control thread
  now,                \* value millis() returns
  wifi,               \* WiFi.status() is WL_CONNECTED
  open,               \* the client's connection is open (library state)
  isConnected,        \* main.cpp:49, test_connection_simple.cpp:18
  isAuthenticated,    \* test_connection_simple.cpp:19
  lastFrameTime,      \* main.cpp:52
  frameCount,         \* main.cpp:53
  fps,                \* main.cpp:54, kept as the exact fraction <<num, den>>
  lastHeartbeat,      \* main.cpp:57, test_connection_simple.cpp:109
  connectionAttempts, \* main.cpp:59
  currentTime,        \* main.cpp:208 (local of loop)
  fb,                 \* main.cpp:216 (local of loop): NullFb or a frame length
  sent,               \* messages handed to client.send/sendBinary/pong in this iteration
  loops,              \* number of completed loop() iterations
  wifiPolls,          \* number of 500 ms waits made by setup()
  captures,           \* number of esp_camera_fb_get() calls made so far
  \* ---- observation (history) variables, not program state ----
  lastConnect,        \* result of loop()'s most recent connectWebSocket(): none/ok/failed
  lastWait,           \* the delay() loop()'s reconnect branch made in this iteration (0: none)
  failRun,            \* consecutive failed connect attempts made by loop()
  sinceReset,         \* connect attempts made by loop() since the counter was last set to 0
  outstanding,        \* frame buffers acquired and not yet returned
  acquired,           \* esp_camera_fb_get() successes in this iteration
  released,           \* esp_camera_fb_return() calls in this iteration
  sendFailed,         \* some client.send/sendBinary of this iteration returned false
  connAfterPoll,      \* isConnected as loop() read it at line 190 in this iteration
  closedSeen,         \* a ConnectionClosed was dispatched and no connect succeeded since
  hbPrev,             \* the heartbeat time recorded before the last one (-1: none)
  hbCount,            \* heartbeats sent so far, capped at 2
  paceElapsed,        \* millis() - currentTime at line 251 of the last paced iteration (-1: none)
  paceDelay,          \* the delay made at line 253 in that iteration (0: none)
  winFrames,          \* frames returned to the driver since the last FPS report
  winStart,           \* start time of the current FPS window
  report,             \* the FPS report of this iteration, or NoReport
  devInfoCount,       \* device_info messages sent in the current session
  lastEvent,          \* the event the callback handled last
  headers,            \* the custom headers the client holds (library state)
  handshake,          \* the client.connect() call of this iteration, or NoHandshake
  \* ---- test_connection.cpp ----
  start_time,         \* test_connection.cpp:30 and :82 (local of the running test)
  all_tests_passed,   \* test_connection.cpp:219 (local of setup)
  testLog,            \* the tests run so far with their results, in order
  verdict,            \* the summary line setup() printed: none/passed/failed
  clientClosed        \* test_client.close() was called at line 251

progVars == <<pc, now, wifi, open, isConnected, isAuthenticated, lastFrameTime,
              frameCount, fps, lastHeartbeat, connectionAttempts, currentTime,
              fb, sent, loops, wifiPolls, captures>>
retryObs == <<lastConnect, lastWait, failRun, sinceReset>>
frameObs == <<outstanding, acquired, released, sendFailed>>
sessObs  == <<connAfterPoll, closedSeen, devInfoCount, lastEvent>>
hbObs    == <<hbPrev, hbCount>>
paceObs  == <<paceElapsed, paceDelay>>
fpsObs   == <<winFrames, winStart, report>>
hdrObs   == <<headers, handshake>>
testObs  == <<start_time, all_tests_passed, testLog, verdict, clientClosed>>
vars == <<progVars, retryObs, frameObs, sessObs, hbObs, paceObs, fpsObs, hdrObs,
          testObs>>

----------------------------------------------------------------------------
(* Bounds of the model *)
MaxLoops == 8
MaxWifiPolls == 2
MaxCaptures == 2
MaxFrameLen == 120

(* Program constants *)
HEARTBEAT_INTERVAL == 30000
MAX_CONNECTION_ATTEMPTS == 5
SHORT_BACKOFF == 5000
LONG_BACKOFF == 30000
WIFI_POLL_DELAY == 500
FPS_WINDOW == 1000
FRAME_DURATION == 33

(* unsigned long arithmetic.  The ESP32's unsigned long has 32 bits; TLC's
   integers are 32-bit signed, so the modulus is 2^30: every time of the
   model is far below it and the wrap of a difference below zero is kept. *)
ULongMod == 2^30
USub(a, b) == (a - b + ULongMod) % ULongMod
UAdd(a, b) == (a + b) % ULongMod

(* Durations (ms) the capture and the sends of one iteration may take. *)
WorkTimes == {1, FRAME_DURATION, FPS_WINDOW - 1, HEARTBEAT_INTERVAL}

NullFb == 0
FrameLens == {9, 10, MaxFrameLen}
NoReport == <<>>

----------------------------------------------------------------------------
(* String(n): the decimal digits of an unsigned number, most significant first *)
RECURSIVE ToDecimal(_)
ToDecimal(n) == IF n < 10 THEN <<n>> ELSE Append(ToDecimal(n \div 10), n % 10)

(* what a JSON reader gets back from the digits *)
RECURSIVE ParseDecimal(_)
ParseDecimal(s) ==
  IF Len(s) = 0 THEN 0
  ELSE 10 * ParseDecimal(SubSeq(s, 1, Len(s) - 1)) + s[Len(s)]

(* One entry of the log of sends: the kind of message, the "size" field of a
   frame metadata message (digits) and the byte length of a binary payload. *)
Msg(type, size, len) == [type |-> type, size |-> size, len |-> len]
TextMsg(type) == Msg(type, <<>>, 0)

HasType(log, t) == \E i \in 1..Len(log) : log[i].type = t
CountType(log, t) == Cardinality({i \in 1..Len(log) : log[i].type = t})

(* main.cpp sendLog: the message goes to the server only if isConnected *)
SendLog(conn, log) == IF conn THEN Append(log, TextMsg("log")) ELSE log

(* variant of main.cpp:77-79 without the assignment isConnected = false *)
OnEventsCallbackKeepsFlag(event, conn, log) ==
  IF event = "ConnectionOpened"
    THEN [isConnected |-> TRUE, sent |-> SendLog(conn, log)]
  ELSE [isConnected |-> conn,
        sent |-> IF event = "ConnectionClosed" THEN SendLog(conn, log) ELSE log]

(* main.cpp onEventsCallback: the new isConnected and log of sends *)
OnEventsCallback(event, conn, log) ==
  IF event = "ConnectionOpened"
    THEN [isConnected |-> TRUE, sent |-> SendLog(conn, log)]
  ELSE IF event = "ConnectionClosed"
    THEN [isConnected |-> FALSE, sent |-> SendLog(conn, log)]
  ELSE [isConnected |-> conn, sent |-> log]

(* A custom header of the client.  A value is the sequence of the strings
   it is concatenated from. *)
Header(name, value) == [name |-> name, value |-> value]
AUTH_TOKEN == "AUTH_TOKEN"
MAC_ADDRESS == "WiFi.macAddress()"

(* client.addHeader(name, value): ArduinoWebsockets appends the pair to the
   client's list of custom headers; it neither replaces nor removes an
   entry of the same name. *)
AddHeader(hdrs, name, value) == Append(hdrs, Header(name, value))

(* main.cpp:92-96: the five addHeader calls of one connectWebSocket() *)
AddDeviceHeaders(hdrs) ==
  AddHeader(AddHeader(AddHeader(AddHeader(AddHeader(hdrs,
    "Authorization", <<"Bearer ", AUTH_TOKEN>>),
    "X-Device-Type", <<"ESP32CAM">>),
    "X-Device-ID", <<MAC_ADDRESS>>),
    "X-Device-Version", <<"1.0.0">>),
    "X-Connection-Type", <<"WebSocket">>)

(* What is recorded of a client.connect() call: whether WiFi.status() was
   WL_CONNECTED when it was made and the custom headers its upgrade request
   carried. *)
NoHandshake == [made |-> FALSE, wifi |-> FALSE, headers |-> <<>>]
Handshake(up, hdrs) == [made |-> TRUE, wifi |-> up, headers |-> hdrs]

(* variant of main.cpp:92-98 that calls client.connect before the addHeader
   calls *)
ConnectWebSocketConnectsFirst(ok, up, conn, log, hdrs) ==
  IF ok
    THEN [isConnected |-> TRUE,
          sent |-> Append(OnEventsCallback("ConnectionOpened", conn, log).sent,
                          TextMsg("connection")),
          headers |-> AddDeviceHeaders(hdrs),
          handshake |-> Handshake(up, hdrs)]
    ELSE [isConnected |-> FALSE, sent |-> log,
          headers |-> AddDeviceHeaders(hdrs),
          handshake |-> Handshake(up, hdrs)]

(* main.cpp connectWebSocket; up tells whether WiFi.status() is WL_CONNECTED
   (the function does not read it), ok is the result of client.connect, which
   on success dispatches ConnectionOpened to the callback before it returns. *)
ConnectWebSocket(ok, up, conn, log, hdrs) ==
  IF ok
    THEN [isConnected |-> TRUE,
          sent |-> Append(OnEventsCallback("ConnectionOpened", conn, log).sent,
                          TextMsg("connection")),
          headers |-> AddDeviceHeaders(hdrs),
          handshake |-> Handshake(up, AddDeviceHeaders(hdrs))]
    ELSE [isConnected |-> FALSE, sent |-> log,
          headers |-> AddDeviceHeaders(hdrs),
          handshake |-> Handshake(up, AddDeviceHeaders(hdrs))]

(* the handshake can succeed only over an associated WiFi *)
ConnectResults == IF wifi THEN BOOLEAN ELSE {FALSE}

(* events client.poll() may dispatch to the onEvent callback of main.cpp *)
PollEvents == IF open THEN {"none", "ConnectionClosed", "GotPing", "GotPong"}
              ELSE {"none"}

(* variant of main.cpp:191 with <= in place of < *)
MayRetryInclusive(n) == n <= MAX_CONNECTION_ATTEMPTS

(* variant of main.cpp:191 with > in place of < *)
MayRetryNever(n) == n > MAX_CONNECTION_ATTEMPTS

(* main.cpp:191 *)
MayRetry(n) == n < MAX_CONNECTION_ATTEMPTS

(* variant of main.cpp:209 with > in place of >= *)
HeartbeatDueStrict(cur, last) == USub(cur, last) > HEARTBEAT_INTERVAL

(* main.cpp:209 *)
HeartbeatDue(cur, last) == USub(cur, last) >= HEARTBEAT_INTERVAL

(* main.cpp:242 *)
FpsDue(cur, last) == USub(cur, last) >= FPS_WINDOW

(* variant of main.cpp:243 without the factor 1000.0 *)
ComputeFpsPerMilli(count, cur, last) == <<count, USub(cur, last)>>

(* main.cpp:243, the quotient kept exact *)
ComputeFps(count, cur, last) == <<count * 1000, USub(cur, last)>>

(* main.cpp:251 *)
PaceElapsed(t, cur) == USub(t, USub(cur, FRAME_DURATION))

(* variant of main.cpp:225 that formats the length modulo 100 *)
MetadataTruncated(len) == Msg("frame", ToDecimal(len % 100), 0)

(* main.cpp:225-230: the metadata of a frame of len bytes *)
Metadata(len) == Msg("frame", ToDecimal(len), 0)

----------------------------------------------------------------------------
Init ==
  /\ pc = "setup"
  /\ now = 0
  /\ wifi = FALSE
  /\ open = FALSE
  /\ isConnected = FALSE
  /\ isAuthenticated = FALSE
  /\ lastFrameTime = 0
  /\ frameCount = 0
  /\ fps = <<0, 1>>
  /\ lastHeartbeat = 0
  /\ connectionAttempts = 0
  /\ currentTime = 0
  /\ fb = NullFb
  /\ sent = <<>>
  /\ loops = 0
  /\ wifiPolls = 0
  /\ captures = 0
  /\ lastConnect = "none"
  /\ lastWait = 0
  /\ failRun = 0
  /\ sinceReset = 0
  /\ outstanding = 0
  /\ acquired = 0
  /\ released = 0
  /\ sendFailed = FALSE
  /\ connAfterPoll = FALSE
  /\ closedSeen = FALSE
  /\ hbPrev = -1
  /\ hbCount = 0
  /\ paceElapsed = -1
  /\ paceDelay = 0
  /\ winFrames = 0
  /\ winStart = 0
  /\ report = NoReport
  /\ devInfoCount = 0
  /\ lastEvent = "none"
  /\ headers = <<>>
  /\ handshake = NoHandshake
  /\ start_time = 0
  /\ all_tests_passed = TRUE
  /\ testLog = <<>>
  /\ verdict = "none"
  /\ clientClosed = FALSE

loopLocals == <<lastFrameTime, frameCount, fps, lastHeartbeat, connectionAttempts,
                currentTime, fb>>
bounded == <<wifiPolls, captures>>

(* setup(), lines 111-165: camera initialisation; on failure setup returns
   and the Arduino core goes on to call loop(). *)
SetupCamera ==
  /\ pc = "setup"
  /\ \E camOk \in BOOLEAN : pc' = IF camOk THEN "wifi" ELSE "poll"
  /\ UNCHANGED <<now, wifi, open, isConnected, isAuthenticated, sent, loops,
                 bounded, loopLocals>>
  /\ UNCHANGED <<retryObs, frameObs, sessObs, hbObs, paceObs, fpsObs>>
  /\ UNCHANGED <<hdrObs, testObs>>

(* setup(), lines 167-170: one turn of the association wait *)
SetupWifiWait ==
  /\ pc = "wifi"
  /\ ~wifi
  /\ wifiPolls < MaxWifiPolls
  /\ now' = UAdd(now, WIFI_POLL_DELAY)
  /\ wifiPolls' = wifiPolls + 1
  /\ \E up \in BOOLEAN : wifi' = up
  /\ UNCHANGED <<pc, open, isConnected, isAuthenticated, sent, loops, captures,
                 loopLocals>>
  /\ UNCHANGED <<retryObs, frameObs, sessObs, hbObs, paceObs, fpsObs>>
  /\ UNCHANGED <<hdrObs, testObs>>

(* variant of main.cpp:167-170 that does not wait for the association *)
SetupConnectNoWait ==
  /\ pc = "wifi"
  /\ \E ok \in ConnectResults :
       LET c == ConnectWebSocket(ok, wifi, isConnected, sent, headers) IN
         /\ isConnected' = c.isConnected
         /\ open' = ok
         /\ sent' = SendLog(c.isConnected, c.sent)
         /\ headers' = c.headers
         /\ handshake' = c.handshake
  /\ pc' = "done"
  /\ UNCHANGED <<now, wifi, isAuthenticated, loops, bounded, loopLocals>>
  /\ UNCHANGED <<retryObs, frameObs, sessObs, hbObs, paceObs, fpsObs>>
  /\ UNCHANGED testObs

(* setup(), lines 171-183: connectWebSocket() and the first log *)
SetupConnect ==
  /\ pc = "wifi"
  /\ wifi
  /\ \E ok \in ConnectResults :
       LET c == ConnectWebSocket(ok, wifi, isConnected, sent, headers) IN
         /\ isConnected' = c.isConnected
         /\ open' = ok
         /\ sent' = SendLog(c.isConnected, c.sent)
         /\ headers' = c.headers
         /\ handshake' = c.handshake
  /\ pc' = "done"
  /\ UNCHANGED <<now, wifi, isAuthenticated, loops, bounded, loopLocals>>
  /\ UNCHANGED <<retryObs, frameObs, sessObs, hbObs, paceObs, fpsObs>>
  /\ UNCHANGED testObs

(* loop(), line 187: client.poll() dispatches at most one event here *)
LoopPoll ==
  /\ pc = "poll"
  /\ loops < MaxLoops
  /\ \E ev \in PollEvents :
       LET cb == OnEventsCallback(ev, isConnected, sent) IN
         /\ isConnected' = cb.isConnected
         /\ connAfterPoll' = cb.isConnected
         /\ sent' = cb.sent
         /\ open' = IF ev = "ConnectionClosed" THEN FALSE ELSE open
         /\ closedSeen' = (closedSeen \/ ev = "ConnectionClosed")
  /\ pc' = "dispatch"
  /\ UNCHANGED <<now, wifi, isAuthenticated, loops, bounded, loopLocals, devInfoCount,
                 lastEvent>>
  /\ UNCHANGED <<retryObs, frameObs, hbObs, paceObs, fpsObs>>
  /\ UNCHANGED <<hdrObs, testObs>>

(* main.cpp:194 *)
NextAttempts(n) == n + 1

(* loop(), lines 190-195 and 201: a reconnect attempt and the short backoff *)
LoopReconnect ==
  /\ pc = "dispatch"
  /\ ~isConnected
  /\ MayRetry(connectionAttempts)
  /\ \E ok \in ConnectResults :
       LET c == ConnectWebSocket(ok, wifi, isConnected, SendLog(isConnected, sent),
                                 headers) IN
         /\ isConnected' = c.isConnected
         /\ open' = ok
         /\ sent' = c.sent
         /\ headers' = c.headers
         /\ handshake' = c.handshake
         /\ lastConnect' = IF ok THEN "ok" ELSE "failed"
         /\ failRun' = IF ok THEN 0 ELSE failRun + 1
         /\ closedSeen' = IF ok THEN FALSE ELSE closedSeen
  /\ connectionAttempts' = NextAttempts(connectionAttempts)
  /\ sinceReset' = sinceReset + 1
  /\ now' = UAdd(now, SHORT_BACKOFF)
  /\ lastWait' = SHORT_BACKOFF
  /\ pc' = "done"
  /\ UNCHANGED <<wifi, isAuthenticated, loops, bounded, lastFrameTime, frameCount,
                 fps, lastHeartbeat, currentTime, fb>>
  /\ UNCHANGED <<frameObs, connAfterPoll, devInfoCount, lastEvent, hbObs, paceObs, fpsObs>>
  /\ UNCHANGED testObs

(* loop(), lines 196-201: the long backoff once the attempts are used up *)
LoopLongBackoff ==
  /\ pc = "dispatch"
  /\ ~isConnected
  /\ ~MayRetry(connectionAttempts)
  /\ sent' = SendLog(isConnected, sent)
  /\ connectionAttempts' = 0
  /\ sinceReset' = 0
  /\ failRun' = 0
  /\ now' = UAdd(now, LONG_BACKOFF)
  /\ lastWait' = LONG_BACKOFF
  /\ pc' = "done"
  /\ UNCHANGED <<wifi, open, isConnected, isAuthenticated, loops, bounded,
                 lastFrameTime, frameCount, fps, lastHeartbeat, currentTime, fb>>
  /\ UNCHANGED <<lastConnect, frameObs, sessObs, hbObs, paceObs, fpsObs>>
  /\ UNCHANGED <<hdrObs, testObs>>

(* loop(), lines 205-213: counter reset, time stamp, heartbeat when due *)
LoopHeartbeat ==
  /\ pc = "dispatch"
  /\ isConnected
  /\ connectionAttempts' = 0
  /\ sinceReset' = 0
  /\ currentTime' = now
  /\ IF HeartbeatDue(now, lastHeartbeat)
       THEN /\ sent' = Append(sent, TextMsg("heartbeat"))
            /\ \E ok \in BOOLEAN : sendFailed' = (sendFailed \/ ~ok)
            /\ lastHeartbeat' = now
            /\ hbPrev' = IF hbCount >= 1 THEN lastHeartbeat ELSE -1
            /\ hbCount' = IF hbCount < 2 THEN hbCount + 1 ELSE 2
       ELSE UNCHANGED <<sent, sendFailed, lastHeartbeat, hbPrev, hbCount>>
  /\ pc' = "capture"
  /\ UNCHANGED <<now, wifi, open, isConnected, isAuthenticated, loops, bounded,
                 lastFrameTime, frameCount, fps, fb>>
  /\ UNCHANGED <<lastConnect, lastWait, failRun, outstanding, acquired, released,
                 sessObs, paceObs, fpsObs>>
  /\ UNCHANGED <<hdrObs, testObs>>

(* variant of main.cpp:217-220 without the return: a null buffer goes on to
   the sends and to esp_camera_fb_return *)
LoopCaptureNoReturn ==
  /\ pc = "capture"
  /\ captures < MaxCaptures
  /\ captures' = captures + 1
  /\ \E len \in FrameLens \cup {NullFb}, d \in WorkTimes :
       /\ fb' = len
       /\ now' = UAdd(now, d)
       /\ pc' = "send"
       /\ IF len = NullFb
            THEN UNCHANGED frameObs
            ELSE /\ acquired' = acquired + 1
                 /\ outstanding' = outstanding + 1
                 /\ UNCHANGED <<released, sendFailed>>
  /\ UNCHANGED <<wifi, open, isConnected, isAuthenticated, loops, wifiPolls, sent,
                 lastFrameTime, frameCount, fps, lastHeartbeat, connectionAttempts,
                 currentTime>>
  /\ UNCHANGED <<retryObs, sessObs, hbObs, paceObs, fpsObs>>
  /\ UNCHANGED <<hdrObs, testObs>>

(* loop(), lines 216-220: esp_camera_fb_get(); a null buffer ends the
   iteration.  lens are the results the driver may give, times the durations
   the call may take. *)
Capture(lens, times) ==
  /\ pc = "capture"
  /\ captures < MaxCaptures
  /\ captures' = captures + 1
  /\ \E len \in lens, d \in times :
       /\ fb' = len
       /\ now' = UAdd(now, d)
       /\ IF len = NullFb
            THEN /\ pc' = "done"
                 /\ UNCHANGED frameObs
            ELSE /\ pc' = "send"
                 /\ acquired' = acquired + 1
                 /\ outstanding' = outstanding + 1
                 /\ UNCHANGED <<released, sendFailed>>
  /\ UNCHANGED <<wifi, open, isConnected, isAuthenticated, loops, wifiPolls, sent,
                 lastFrameTime, frameCount, fps, lastHeartbeat, connectionAttempts,
                 currentTime>>
  /\ UNCHANGED <<retryObs, sessObs, hbObs, paceObs, fpsObs>>
  /\ UNCHANGED <<hdrObs, testObs>>

LoopCapture == Capture(FrameLens \cup {NullFb}, WorkTimes)

(* variant of main.cpp:231-234 that takes a failed send for a lost session *)
LoopSendChecksResult ==
  /\ pc = "send"
  /\ IF isConnected
       THEN /\ sent' = sent \o <<Metadata(fb), Msg("binary", <<>>, fb)>>
            /\ \E okMeta \in BOOLEAN, okBin \in BOOLEAN :
                 /\ sendFailed' = (sendFailed \/ ~okMeta \/ ~okBin)
                 /\ isConnected' = (okMeta /\ okBin)
       ELSE UNCHANGED <<sent, sendFailed, isConnected>>
  /\ pc' = "release"
  /\ UNCHANGED <<now, wifi, open, isAuthenticated, loops, bounded, loopLocals>>
  /\ UNCHANGED <<retryObs, outstanding, acquired, released, sessObs, hbObs, paceObs,
                 fpsObs>>
  /\ UNCHANGED <<hdrObs, testObs>>

(* loop(), lines 223-235: metadata, then the binary payload; results discarded *)
LoopSend ==
  /\ pc = "send"
  /\ IF isConnected
       THEN /\ sent' = sent \o <<Metadata(fb), Msg("binary", <<>>, fb)>>
            /\ \E okMeta \in BOOLEAN, okBin \in BOOLEAN :
                 sendFailed' = (sendFailed \/ ~okMeta \/ ~okBin)
       ELSE UNCHANGED <<sent, sendFailed>>
  /\ pc' = "release"
  /\ UNCHANGED <<now, wifi, open, isConnected, isAuthenticated, loops, bounded, loopLocals>>
  /\ UNCHANGED <<retryObs, outstanding, acquired, released, sessObs, hbObs, paceObs,
                 fpsObs>>
  /\ UNCHANGED <<hdrObs, testObs>>

(* variant of main.cpp:231-238 that returns early when a send failed *)
LoopReleaseUnlessSendFailed ==
  /\ pc = "release"
  /\ IF sendFailed
       THEN UNCHANGED <<outstanding, released, winFrames>>
       ELSE /\ outstanding' = outstanding - 1
            /\ released' = released + 1
            /\ winFrames' = winFrames + 1
  /\ pc' = "fps"
  /\ UNCHANGED <<now, wifi, open, isConnected, isAuthenticated, loops, bounded, sent,
                 loopLocals>>
  /\ UNCHANGED <<retryObs, acquired, sendFailed, sessObs, hbObs, paceObs, winStart,
                 report>>
  /\ UNCHANGED <<hdrObs, testObs>>

(* loop(), line 238: esp_camera_fb_return(fb) *)
LoopRelease ==
  /\ pc = "release"
  /\ outstanding' = outstanding - 1
  /\ released' = released + 1
  /\ winFrames' = winFrames + 1
  /\ pc' = "fps"
  /\ UNCHANGED <<now, wifi, open, isConnected, isAuthenticated, loops, bounded, sent,
                 loopLocals>>
  /\ UNCHANGED <<retryObs, acquired, sendFailed, sessObs, hbObs, paceObs, winStart,
                 report>>
  /\ UNCHANGED <<hdrObs, testObs>>

(* loop(), lines 241-247: the frame counter and the once-a-second report *)
LoopFps ==
  /\ pc = "fps"
  /\ IF FpsDue(currentTime, lastFrameTime)
       THEN /\ fps' = ComputeFps(frameCount + 1, currentTime, lastFrameTime)
            /\ sent' = SendLog(isConnected, sent)
            /\ frameCount' = 0
            /\ lastFrameTime' = currentTime
            /\ report' = [fps |-> fps', frames |-> winFrames,
                          elapsed |-> currentTime - winStart]
            /\ winFrames' = 0
            /\ winStart' = currentTime
       ELSE /\ frameCount' = frameCount + 1
            /\ UNCHANGED <<fps, sent, lastFrameTime, fpsObs>>
  /\ pc' = "pace"
  /\ UNCHANGED <<now, wifi, open, isConnected, isAuthenticated, loops, bounded,
                 lastHeartbeat, connectionAttempts, currentTime, fb>>
  /\ UNCHANGED <<retryObs, frameObs, sessObs, hbObs, paceObs>>
  /\ UNCHANGED <<hdrObs, testObs>>

(* loop(), lines 250-254: the frame-rate control *)
LoopPace ==
  /\ pc = "pace"
  /\ LET elapsed == PaceElapsed(now, currentTime)
         wait == IF elapsed < FRAME_DURATION THEN FRAME_DURATION - elapsed ELSE 0
     IN /\ now' = UAdd(now, wait)
        /\ paceDelay' = wait
  /\ paceElapsed' = USub(now, currentTime)
  /\ pc' = "done"
  /\ UNCHANGED <<wifi, open, isConnected, isAuthenticated, loops, bounded, sent,
                 loopLocals>>
  /\ UNCHANGED <<retryObs, frameObs, sessObs, hbObs, fpsObs>>
  /\ UNCHANGED <<hdrObs, testObs>>

(* setup() or loop() returns: the locals die, and the per-iteration
   observations start afresh for the next call of loop(). *)
LoopReturn ==
  /\ pc = "done"
  /\ pc' = "poll"
  /\ loops' = loops + 1
  /\ currentTime' = 0
  /\ fb' = NullFb
  /\ sent' = <<>>
  /\ lastWait' = 0
  /\ acquired' = 0
  /\ released' = 0
  /\ sendFailed' = FALSE
  /\ connAfterPoll' = FALSE
  /\ lastEvent' = "none"
  /\ paceElapsed' = -1
  /\ paceDelay' = 0
  /\ report' = NoReport
  /\ UNCHANGED <<now, wifi, open, isConnected, isAuthenticated, bounded,
                 lastFrameTime, frameCount, fps, lastHeartbeat, connectionAttempts>>
  /\ UNCHANGED <<lastConnect, failRun, sinceReset, outstanding, closedSeen,
                 devInfoCount, hbObs, winFrames, winStart>>
  /\ handshake' = NoHandshake
  /\ UNCHANGED <<headers, testObs>>

Next ==
  \/ SetupCamera
  \/ SetupWifiWait
  \/ SetupConnect
  \/ LoopPoll
  \/ LoopReconnect
  \/ LoopLongBackoff
  \/ LoopHeartbeat
  \/ LoopCapture
  \/ LoopSend
  \/ LoopRelease
  \/ LoopFps
  \/ LoopPace
  \/ LoopReturn

Spec == Init /\ [][Next]_vars

(* The progress of the reconnect logic does not depend on how long a
   capture takes or how large a frame is: SpecLive follows the same program
   with one duration and one frame length.  The Arduino core calls loop()
   again whenever it returns, and every statement of setup() and loop()
   returns (delay, the bounded connect and send calls): a step that can be
   taken is eventually taken. *)
LoopCaptureLive == Capture({MaxFrameLen, NullFb}, {FRAME_DURATION})

NextLive ==
  \/ SetupCamera
  \/ SetupWifiWait
  \/ SetupConnect
  \/ LoopPoll
  \/ LoopReconnect
  \/ LoopLongBackoff
  \/ LoopHeartbeat
  \/ LoopCaptureLive
  \/ LoopSend
  \/ LoopRelease
  \/ LoopFps
  \/ LoopPace
  \/ LoopReturn

SpecLive == Init /\ [][NextLive]_vars /\ WF_vars(NextLive)

----------------------------------------------------------------------------
(* test_connection_simple.cpp *)

SIMPLE_HEARTBEAT_MS == 10000
SIMPLE_LOOP_DELAY == 100

(* Text messages, as sequences of tokens: data.length() is 0 for the empty
   one, data.indexOf(t) != -1 when t occurs in it. *)
Texts == {<<>>, <<"connection_ack">>, <<"type", "connection_ack", "status">>,
          <<"type", "pong">>}
Contains(data, token) == \E i \in 1..Len(data) : data[i] = token

(* what client.poll() may hand to the callback of test_connection_simple.cpp;
   the sketch's last branch treats every other event as a text message. *)
SimpleEvents ==
  IF open
    THEN {[event |-> e, data |-> <<>>] :
             e \in {"none", "ConnectionClosed", "GotPing", "GotPong"}}
         \cup {[event |-> "Message", data |-> d] : d \in Texts}
    ELSE {[event |-> "none", data |-> <<>>]}

(* extra time (ms) the poll and the sends of one iteration may take *)
SimpleWorkTimes == {0, SIMPLE_HEARTBEAT_MS - SIMPLE_LOOP_DELAY}

(* variant of test_connection_simple.cpp:39 without the test !isAuthenticated *)
SimpleOnEventsCallbackNoGuard(ev, conn, auth, log) ==
  IF ev.event = "ConnectionOpened"
    THEN [isConnected |-> TRUE, isAuthenticated |-> FALSE, sent |-> log]
  ELSE IF ev.event = "ConnectionClosed"
    THEN [isConnected |-> FALSE, isAuthenticated |-> FALSE, sent |-> log]
  ELSE IF ev.event = "GotPing"
    THEN [isConnected |-> conn, isAuthenticated |-> auth,
          sent |-> Append(log, TextMsg("pong"))]
  ELSE IF ev.event = "GotPong"
    THEN [isConnected |-> conn, isAuthenticated |-> auth, sent |-> log]
  ELSE IF Len(ev.data) > 0 /\ Contains(ev.data, "connection_ack")
    THEN [isConnected |-> conn, isAuthenticated |-> TRUE,
          sent |-> Append(log, TextMsg("device_info"))]
  ELSE [isConnected |-> conn, isAuthenticated |-> auth, sent |-> log]

(* variant of test_connection_simple.cpp:27-29 without the assignment
   isAuthenticated = false *)
SimpleOnEventsCallbackKeepsAuth(ev, conn, auth, log) ==
  IF ev.event = "ConnectionOpened"
    THEN [isConnected |-> TRUE, isAuthenticated |-> FALSE, sent |-> log]
  ELSE IF ev.event = "ConnectionClosed"
    THEN [isConnected |-> FALSE, isAuthenticated |-> auth, sent |-> log]
  ELSE IF ev.event = "GotPing"
    THEN [isConnected |-> conn, isAuthenticated |-> auth,
          sent |-> Append(log, TextMsg("pong"))]
  ELSE IF ev.event = "GotPong"
    THEN [isConnected |-> conn, isAuthenticated |-> auth, sent |-> log]
  ELSE IF Len(ev.data) > 0 /\ ~auth /\ Contains(ev.data, "connection_ack")
    THEN [isConnected |-> conn, isAuthenticated |-> TRUE,
          sent |-> Append(log, TextMsg("device_info"))]
  ELSE [isConnected |-> conn, isAuthenticated |-> auth, sent |-> log]

(* test_connection_simple.cpp onEventsCallback *)
SimpleOnEventsCallback(ev, conn, auth, log) ==
  IF ev.event = "ConnectionOpened"
    THEN [isConnected |-> TRUE, isAuthenticated |-> FALSE, sent |-> log]
  ELSE IF ev.event = "ConnectionClosed"
    THEN [isConnected |-> FALSE, isAuthenticated |-> FALSE, sent |-> log]
  ELSE IF ev.event = "GotPing"
    THEN [isConnected |-> conn, isAuthenticated |-> auth,
          sent |-> Append(log, TextMsg("pong"))]
  ELSE IF ev.event = "GotPong"
    THEN [isConnected |-> conn, isAuthenticated |-> auth, sent |-> log]
  ELSE IF Len(ev.data) > 0 /\ ~auth /\ Contains(ev.data, "connection_ack")
    THEN [isConnected |-> conn, isAuthenticated |-> TRUE,
          sent |-> Append(log, TextMsg("device_info"))]
  ELSE [isConnected |-> conn, isAuthenticated |-> auth, sent |-> log]

(* test_connection_simple.cpp connectWebSocket; up tells whether
   WiFi.status() is WL_CONNECTED, ok is the result of client.connect, which on success has
   dispatched ConnectionOpened to the callback. *)
SimpleConnectWebSocket(up, ok, conn, auth, log) ==
  IF ~up
    THEN [isConnected |-> conn, isAuthenticated |-> auth, sent |-> log,
          handshake |-> FALSE]
  ELSE IF ok
    THEN [isConnected |-> TRUE, isAuthenticated |-> FALSE,
          sent |-> SimpleOnEventsCallback([event |-> "ConnectionOpened", data |-> <<>>],
                                          conn, auth, log).sent,
          handshake |-> TRUE]
  ELSE [isConnected |-> FALSE, isAuthenticated |-> auth, sent |-> log,
        handshake |-> TRUE]

NoEvent == [event |-> "none", data |-> <<>>]
OpenedEvent == [event |-> "ConnectionOpened", data |-> <<>>]

mainOnly == <<lastFrameTime, frameCount, fps, connectionAttempts, currentTime, fb,
              captures, retryObs, frameObs, hbCount, paceObs, fpsObs, connAfterPoll,
              closedSeen, hdrObs, testObs>>

SimpleInit ==
  /\ pc = "s_wifi"
  /\ now = 0
  /\ wifi = FALSE
  /\ open = FALSE
  /\ isConnected = FALSE
  /\ isAuthenticated = FALSE
  /\ lastFrameTime = 0
  /\ frameCount = 0
  /\ fps = <<0, 1>>
  /\ lastHeartbeat = 0
  /\ connectionAttempts = 0
  /\ currentTime = 0
  /\ fb = NullFb
  /\ sent = <<>>
  /\ loops = 0
  /\ wifiPolls = 0
  /\ captures = 0
  /\ lastConnect = "none"
  /\ lastWait = 0
  /\ failRun = 0
  /\ sinceReset = 0
  /\ outstanding = 0
  /\ acquired = 0
  /\ released = 0
  /\ sendFailed = FALSE
  /\ connAfterPoll = FALSE
  /\ closedSeen = FALSE
  /\ hbPrev = -1
  /\ hbCount = 0
  /\ paceElapsed = -1
  /\ paceDelay = 0
  /\ winFrames = 0
  /\ winStart = 0
  /\ report = NoReport
  /\ devInfoCount = 0
  /\ lastEvent = NoEvent
  /\ headers = <<>>
  /\ handshake = NoHandshake
  /\ start_time = 0
  /\ all_tests_passed = TRUE
  /\ testLog = <<>>
  /\ verdict = "none"
  /\ clientClosed = FALSE

(* setup(), lines 79-83: one turn of the association wait *)
SimpleSetupWifiWait ==
  /\ pc = "s_wifi"
  /\ ~wifi
  /\ wifiPolls < MaxWifiPolls
  /\ now' = UAdd(now, WIFI_POLL_DELAY)
  /\ wifiPolls' = wifiPolls + 1
  /\ \E up \in BOOLEAN : wifi' = up
  /\ UNCHANGED <<pc, open, isConnected, isAuthenticated, lastHeartbeat, sent, loops,
                 devInfoCount, lastEvent, mainOnly>>
  /\ UNCHANGED hbPrev

(* the effect of one connectWebSocket() call on the session *)
SimpleConnectStep ==
  \E ok \in BOOLEAN :
    LET c == SimpleConnectWebSocket(wifi, ok, isConnected, isAuthenticated, sent) IN
      /\ isConnected' = c.isConnected
      /\ isAuthenticated' = c.isAuthenticated
      /\ sent' = c.sent
      /\ open' = IF c.handshake THEN ok ELSE open
      /\ devInfoCount' = IF c.handshake /\ ok THEN 0 ELSE devInfoCount
      /\ lastEvent' = IF c.handshake /\ ok THEN OpenedEvent ELSE lastEvent

(* setup(), lines 84-96 *)
SimpleSetupConnect ==
  /\ pc = "s_wifi"
  /\ wifi
  /\ SimpleConnectStep
  /\ pc' = "s_done"
  /\ UNCHANGED <<now, wifi, lastHeartbeat, loops, wifiPolls, mainOnly>>
  /\ UNCHANGED hbPrev

(* loop(), line 99: client.poll() dispatches at most one event; the WiFi
   association may have been lost or regained since the last iteration. *)
SimpleLoopPoll ==
  /\ pc = "s_poll"
  /\ loops < MaxLoops
  /\ \E ev \in SimpleEvents :
       LET cb == SimpleOnEventsCallback(ev, isConnected, isAuthenticated, sent) IN
         /\ isConnected' = cb.isConnected
         /\ isAuthenticated' = cb.isAuthenticated
         /\ sent' = cb.sent
         /\ devInfoCount' = devInfoCount + CountType(cb.sent, "device_info")
                                         - CountType(sent, "device_info")
         /\ open' = IF ev.event = "ConnectionClosed" THEN FALSE ELSE open
         /\ lastEvent' = ev
  /\ \E up \in BOOLEAN : wifi' = up
  /\ pc' = "s_dispatch"
  /\ UNCHANGED <<now, lastHeartbeat, loops, wifiPolls, mainOnly>>
  /\ UNCHANGED hbPrev

(* loop(), lines 101-106 *)
SimpleLoopReconnect ==
  /\ pc = "s_dispatch"
  /\ ~isConnected
  /\ SimpleConnectStep
  /\ now' = UAdd(now, SHORT_BACKOFF)
  /\ pc' = "s_done"
  /\ UNCHANGED <<wifi, lastHeartbeat, loops, wifiPolls, mainOnly>>
  /\ UNCHANGED hbPrev

(* test_connection_simple.cpp:110 *)
SimpleHeartbeatDue(t, last) == USub(t, last) > SIMPLE_HEARTBEAT_MS

(* variant of test_connection_simple.cpp:110-117 that records the time only
   when the heartbeat is sent *)
SimpleLoopHeartbeatResetOnSend ==
  /\ pc = "s_dispatch"
  /\ isConnected
  /\ IF SimpleHeartbeatDue(now, lastHeartbeat) /\ isAuthenticated
       THEN /\ sent' = Append(sent, TextMsg("heartbeat"))
            /\ lastHeartbeat' = now
            /\ hbPrev' = lastHeartbeat
       ELSE UNCHANGED <<sent, lastHeartbeat, hbPrev>>
  /\ \E d \in SimpleWorkTimes : now' = UAdd(now, SIMPLE_LOOP_DELAY + d)
  /\ pc' = "s_done"
  /\ UNCHANGED <<wifi, open, isConnected, isAuthenticated, loops, wifiPolls,
                 devInfoCount, lastEvent, mainOnly>>

(* loop(), lines 108-119 *)
SimpleLoopHeartbeat ==
  /\ pc = "s_dispatch"
  /\ isConnected
  /\ IF SimpleHeartbeatDue(now, lastHeartbeat)
       THEN /\ sent' = IF isAuthenticated THEN Append(sent, TextMsg("heartbeat"))
                       ELSE sent
            /\ lastHeartbeat' = now
            /\ hbPrev' = lastHeartbeat
       ELSE UNCHANGED <<sent, lastHeartbeat, hbPrev>>
  /\ \E d \in SimpleWorkTimes : now' = UAdd(now, SIMPLE_LOOP_DELAY + d)
  /\ pc' = "s_done"
  /\ UNCHANGED <<wifi, open, isConnected, isAuthenticated, loops, wifiPolls,
                 devInfoCount, lastEvent, mainOnly>>

(* setup() or loop() returns *)
SimpleLoopReturn ==
  /\ pc = "s_done"
  /\ pc' = "s_poll"
  /\ loops' = loops + 1
  /\ sent' = <<>>
  /\ lastEvent' = NoEvent
  /\ UNCHANGED <<now, wifi, open, isConnected, isAuthenticated, lastHeartbeat,
                 wifiPolls, devInfoCount, mainOnly>>
  /\ UNCHANGED hbPrev

SimpleNext ==
  \/ SimpleSetupWifiWait
  \/ SimpleSetupConnect
  \/ SimpleLoopPoll
  \/ SimpleLoopReconnect
  \/ SimpleLoopHeartbeat
  \/ SimpleLoopReturn

SpecSimple == SimpleInit /\ [][SimpleNext]_vars

----------------------------------------------------------------------------
(* test_connection.cpp: setup() runs the test functions once, loop() idles *)

WIFI_TEST_TIMEOUT == 10000
AUTH_WAIT == 5000
AUTH_POLL_DELAY == 100
PERF_FRAMES == 10
PERF_DELAY == 100
TEST_LOOP_DELAY == 1000

(* the tests whose result setup() uses, in the order of its calls *)
TestOrder == <<"wifi", "websocket", "authentication", "camera">>
TestResult(test, result) == [test |-> test, result |-> result]

(* variant of test_connection.cpp:31 with <= in place of < *)
TestWifiWaitingInclusive(status, elapsed) == ~status /\ elapsed <= WIFI_TEST_TIMEOUT

(* test_connection.cpp:31: the condition of the association wait *)
TestWifiWaiting(status, elapsed) == ~status /\ elapsed < WIFI_TEST_TIMEOUT

(* variant of test_connection.cpp:221-238 that keeps only the last result *)
AllPassedLastOnly(all, result) == result

(* test_connection.cpp:221-238: if (!test()) all_tests_passed = false *)
AllPassed(all, result) == IF ~result THEN FALSE ELSE all

(* test_connection.cpp onTestEventsCallback: the new test_connected and
   test_authenticated *)
OnTestEventsCallback(ev, conn, auth) ==
  IF ev.event = "ConnectionOpened"
    THEN [isConnected |-> conn, isAuthenticated |-> auth]
  ELSE IF ev.event = "ConnectionClosed"
    THEN [isConnected |-> FALSE, isAuthenticated |-> FALSE]
  ELSE IF Len(ev.data) > 0 /\ Contains(ev.data, "connection_ack")
    THEN [isConnected |-> conn, isAuthenticated |-> TRUE]
  ELSE [isConnected |-> conn, isAuthenticated |-> auth]

notTest == <<lastFrameTime, frameCount, fps, lastHeartbeat, connectionAttempts,
             currentTime, fb, retryObs, frameObs, hbObs, paceObs, fpsObs,
             connAfterPoll, closedSeen, devInfoCount>>

TestInit ==
  /\ pc = "t_wifi"
  /\ now = 0
  /\ wifi = FALSE
  /\ open = FALSE
  /\ isConnected = FALSE
  /\ isAuthenticated = FALSE
  /\ lastFrameTime = 0
  /\ frameCount = 0
  /\ fps = <<0, 1>>
  /\ lastHeartbeat = 0
  /\ connectionAttempts = 0
  /\ currentTime = 0
  /\ fb = NullFb
  /\ sent = <<>>
  /\ loops = 0
  /\ wifiPolls = 0
  /\ captures = 0
  /\ lastConnect = "none"
  /\ lastWait = 0
  /\ failRun = 0
  /\ sinceReset = 0
  /\ outstanding = 0
  /\ acquired = 0
  /\ released = 0
  /\ sendFailed = FALSE
  /\ connAfterPoll = FALSE
  /\ closedSeen = FALSE
  /\ hbPrev = -1
  /\ hbCount = 0
  /\ paceElapsed = -1
  /\ paceDelay = 0
  /\ winFrames = 0
  /\ winStart = 0
  /\ report = NoReport
  /\ devInfoCount = 0
  /\ lastEvent = NoEvent
  /\ headers = <<>>
  /\ handshake = NoHandshake
  /\ start_time = 0
  /\ all_tests_passed = TRUE
  /\ testLog = <<>>
  /\ verdict = "none"
  /\ clientClosed = FALSE

(* testWiFiConnection, lines 31-34: one turn of the wait; the association
   may complete during the delay *)
TestWifiWait ==
  /\ pc = "t_wifi"
  /\ TestWifiWaiting(wifi, USub(now, start_time))
  /\ now' = UAdd(now, WIFI_POLL_DELAY)
  /\ wifiPolls' = wifiPolls + 1
  /\ \E up \in BOOLEAN : wifi' = up
  /\ UNCHANGED <<pc, open, isConnected, isAuthenticated, sent, loops, captures,
                 lastEvent, hdrObs, testObs, notTest>>

(* testWiFiConnection, lines 36-46, and setup(), lines 221-223: the status
   is read again after the wait and decides the result *)
TestWifiReturn ==
  /\ pc = "t_wifi"
  /\ ~TestWifiWaiting(wifi, USub(now, start_time))
  /\ \E up \in BOOLEAN :
       /\ wifi' = up
       /\ testLog' = Append(testLog, TestResult("wifi", up))
       /\ all_tests_passed' = AllPassed(all_tests_passed, up)
  /\ pc' = "t_ws"
  /\ UNCHANGED <<now, open, isConnected, isAuthenticated, sent, loops, wifiPolls,
                 captures, lastEvent, hdrObs, start_time, verdict, clientClosed,
                 notTest>>

(* testWebSocketConnection, lines 50-64, and setup(), lines 226-228 *)
TestWebSocket ==
  /\ pc = "t_ws"
  /\ headers' = AddHeader(headers, "Authorization", <<"Bearer ", "test_token">>)
  /\ handshake' = Handshake(wifi, headers')
  /\ \E ok \in ConnectResults :
       /\ open' = ok
       /\ isConnected' = IF ok THEN TRUE ELSE isConnected
       /\ lastEvent' = IF ok THEN OpenedEvent ELSE lastEvent
       /\ testLog' = Append(testLog, TestResult("websocket", ok))
       /\ all_tests_passed' = AllPassed(all_tests_passed, ok)
  /\ pc' = "t_auth"
  /\ UNCHANGED <<now, wifi, isAuthenticated, sent, loops, wifiPolls, captures,
                 start_time, verdict, clientClosed, notTest>>

(* testAuthentication, lines 67-80 *)
TestAuthStart ==
  /\ pc = "t_auth"
  /\ IF ~isConnected
       THEN /\ testLog' = Append(testLog, TestResult("authentication", FALSE))
            /\ all_tests_passed' = AllPassed(all_tests_passed, FALSE)
            /\ pc' = "t_cam"
            /\ UNCHANGED <<sent, start_time>>
       ELSE /\ sent' = Append(sent, TextMsg("test"))
            /\ start_time' = now
            /\ pc' = "t_auth_wait"
            /\ UNCHANGED <<testLog, all_tests_passed>>
  /\ UNCHANGED <<now, wifi, open, isConnected, isAuthenticated, loops, wifiPolls,
                 captures, lastEvent, hdrObs, verdict, clientClosed, notTest>>

(* testAuthentication, lines 81-84: one poll and its delay *)
TestAuthPoll ==
  /\ pc = "t_auth_wait"
  /\ USub(now, start_time) < AUTH_WAIT
  /\ \E ev \in SimpleEvents :
       LET cb == OnTestEventsCallback(ev, isConnected, isAuthenticated) IN
         /\ isConnected' = cb.isConnected
         /\ isAuthenticated' = cb.isAuthenticated
         /\ open' = IF ev.event = "ConnectionClosed" THEN FALSE ELSE open
         /\ lastEvent' = ev
  /\ now' = UAdd(now, AUTH_POLL_DELAY)
  /\ UNCHANGED <<pc, wifi, sent, loops, wifiPolls, captures, hdrObs, testObs,
                 notTest>>

(* testAuthentication, lines 86-92, and setup(), lines 231-233 *)
TestAuthReturn ==
  /\ pc = "t_auth_wait"
  /\ ~(USub(now, start_time) < AUTH_WAIT)
  /\ testLog' = Append(testLog, TestResult("authentication", isAuthenticated))
  /\ all_tests_passed' = AllPassed(all_tests_passed, isAuthenticated)
  /\ pc' = "t_cam"
  /\ UNCHANGED <<now, wifi, open, isConnected, isAuthenticated, sent, loops,
                 wifiPolls, captures, lastEvent, hdrObs, start_time, verdict,
                 clientClosed, notTest>>

(* testCamera, lines 96-144, and setup(), lines 236-238: the frame that was
   got is returned before the function ends *)
TestCamera ==
  /\ pc = "t_cam"
  /\ \E initOk \in BOOLEAN, len \in {NullFb, MaxFrameLen} :
       LET result == initOk /\ len # NullFb IN
         /\ captures' = IF initOk THEN captures + 1 ELSE captures
         /\ testLog' = Append(testLog, TestResult("camera", result))
         /\ all_tests_passed' = AllPassed(all_tests_passed, result)
  /\ pc' = "t_perf"
  /\ UNCHANGED <<now, wifi, open, isConnected, isAuthenticated, sent, loops,
                 wifiPolls, lastEvent, hdrObs, start_time, verdict, clientClosed,
                 notTest>>

(* testMemory and testPerformance, lines 147-189: ten captures 100 ms apart *)
TestPerformance ==
  /\ pc = "t_perf"
  /\ now' = UAdd(now, PERF_FRAMES * PERF_DELAY)
  /\ pc' = "t_sum"
  /\ UNCHANGED <<wifi, open, isConnected, isAuthenticated, sent, loops, wifiPolls,
                 captures, lastEvent, hdrObs, testObs, notTest>>

(* setup(), lines 247-252: the summary line *)
TestSummary ==
  /\ pc = "t_sum"
  /\ verdict' = IF all_tests_passed THEN "passed" ELSE "failed"
  /\ pc' = "t_close"
  /\ UNCHANGED <<now, wifi, open, isConnected, isAuthenticated, sent, loops,
                 wifiPolls, captures, lastEvent, hdrObs, start_time,
                 all_tests_passed, testLog, clientClosed, notTest>>

(* setup(), lines 255-257: close() dispatches ConnectionClosed to the
   callback *)
TestClose ==
  /\ pc = "t_close"
  /\ IF isConnected
       THEN LET cb == OnTestEventsCallback([event |-> "ConnectionClosed", data |-> <<>>],
                                           isConnected, isAuthenticated) IN
              /\ clientClosed' = TRUE
              /\ open' = FALSE
              /\ isConnected' = cb.isConnected
              /\ isAuthenticated' = cb.isAuthenticated
       ELSE UNCHANGED <<clientClosed, open, isConnected, isAuthenticated>>
  /\ pc' = "t_loop"
  /\ UNCHANGED <<now, wifi, sent, loops, wifiPolls, captures, lastEvent, hdrObs,
                 start_time, all_tests_passed, testLog, verdict, notTest>>

(* loop(), lines 260-263 *)
TestLoop ==
  /\ pc = "t_loop"
  /\ loops < MaxLoops
  /\ now' = UAdd(now, TEST_LOOP_DELAY)
  /\ loops' = loops + 1
  /\ UNCHANGED <<pc, wifi, open, isConnected, isAuthenticated, sent, wifiPolls,
                 captures, lastEvent, hdrObs, testObs, notTest>>

TestNext ==
  \/ TestWifiWait
  \/ TestWifiReturn
  \/ TestWebSocket
  \/ TestAuthStart
  \/ TestAuthPoll
  \/ TestAuthReturn
  \/ TestCamera
  \/ TestPerformance
  \/ TestSummary
  \/ TestClose
  \/ TestLoop

SpecTest == TestInit /\ [][TestNext]_vars

(* setup() runs to its end: every call it makes returns, and the core then
   calls loop() again and again. *)
SpecTestLive == SpecTest /\ WF_vars(TestNext)

----------------------------------------------------------------------------
(* Properties of main.cpp, checked under Spec *)

(* C1: from the end of a loop() iteration in which connectWebSocket()
   succeeded until loop()'s next connect attempt, connectionAttempts is 0. *)
C1_SuccessResetsCounter ==
  (pc \in {"done", "poll"} /\ lastConnect = "ok") => connectionAttempts = 0

(* C2: the wait right after the 5th consecutive failed connect attempt is the
   long backoff and the counter is 0 then; the wait after each of the
   failures 1 to 4 is the short backoff. *)
C2_FifthFailureLongBackoff ==
  (pc = "done" /\ failRun >= 1) =>
     IF failRun = MAX_CONNECTION_ATTEMPTS
       THEN lastWait = LONG_BACKOFF /\ connectionAttempts = 0
       ELSE lastWait = SHORT_BACKOFF

(* C3: the counter stays within 0..MAX_CONNECTION_ATTEMPTS, it equals the
   number of connect attempts loop() made since the counter was last set to
   0 (each attempt adds exactly 1), and so no more than
   MAX_CONNECTION_ATTEMPTS short-backoff attempts follow a reset before the
   long backoff. *)
C3_CounterBounded ==
  /\ connectionAttempts \in 0..MAX_CONNECTION_ATTEMPTS
  /\ sinceReset = connectionAttempts
  /\ sinceReset <= MAX_CONNECTION_ATTEMPTS

C3_Witness ==
  pc = "done" /\ failRun = MAX_CONNECTION_ATTEMPTS
              /\ connectionAttempts = MAX_CONNECTION_ATTEMPTS

(* C4: every acquired frame buffer is returned exactly once before the
   iteration ends; none is outstanding when an iteration starts and never
   more than one is. *)
C4_FrameReleasedOnce ==
  /\ outstanding \in {0, 1}
  /\ released <= acquired /\ acquired <= 1
  /\ outstanding = acquired - released
  /\ pc \in {"poll", "dispatch", "capture", "done"} => outstanding = 0
  /\ pc = "done" => released = acquired

C4_Witness ==
  pc = "done" /\ acquired = 1 /\ released = 1 /\ sendFailed

(* C5: every binary send comes right after a metadata message whose size
   field reads as the binary's length, and every metadata message is
   followed at once by its binary payload. *)
C5_MetadataBeforeBinary ==
  \A i \in 1..Len(sent) :
    /\ sent[i].type = "binary" =>
         /\ i > 1
         /\ sent[i - 1].type = "frame"
         /\ ParseDecimal(sent[i - 1].size) = sent[i].len
         /\ sent[i].len = fb
    /\ sent[i].type = "frame" =>
         /\ i < Len(sent)
         /\ sent[i + 1].type = "binary"

C5_Witness ==
  \E i \in 1..Len(sent) : sent[i].type = "binary" /\ sent[i].len = MaxFrameLen

(* C6: an iteration that finds the session not connected after the poll
   acquires no frame and sends no heartbeat, metadata or binary message; once
   a ConnectionClosed was dispatched no frame goes out before a connect
   succeeds. *)
InIteration == pc \in {"dispatch", "capture", "send", "release", "fps", "pace", "done"}

C6_NoFrameWhileDisconnected ==
  /\ (InIteration /\ ~connAfterPoll) =>
        /\ pc \in {"dispatch", "done"}
        /\ acquired = 0 /\ fb = NullFb
        /\ ~HasType(sent, "heartbeat")
        /\ ~HasType(sent, "frame")
        /\ ~HasType(sent, "binary")
  /\ closedSeen =>
        /\ pc \notin {"capture", "send", "release", "fps", "pace"}
        /\ ~HasType(sent, "frame")
        /\ ~HasType(sent, "binary")

C6_Witness ==
  pc = "done" /\ closedSeen /\ ~connAfterPoll /\ lastWait = SHORT_BACKOFF
              /\ lastConnect = "failed" /\ captures >= 1

(* C7: two consecutive heartbeats are at least HEARTBEAT_INTERVAL ms apart,
   an iteration sends at most one, and a connected iteration that starts
   HEARTBEAT_INTERVAL ms or more after the last recorded heartbeat sends
   one. *)
C7_HeartbeatSpacing ==
  /\ hbCount = 2 => lastHeartbeat - hbPrev >= HEARTBEAT_INTERVAL
  /\ CountType(sent, "heartbeat") <= 1
  /\ HasType(sent, "heartbeat") => lastHeartbeat = currentTime
  /\ (pc \in {"capture", "send", "release", "fps", "pace"}
        /\ ~HasType(sent, "heartbeat"))
       => currentTime - lastHeartbeat < HEARTBEAT_INTERVAL

C7_Witness ==
  hbCount = 2 /\ lastHeartbeat - hbPrev = HEARTBEAT_INTERVAL
              /\ HasType(sent, "heartbeat")

(* C8: an iteration that took e < 33 ms up to line 251 is followed by a
   delay of 33 - e ms, one that took 33 ms or more by none. *)
C8_PaceSleepsRemainder ==
  (pc = "done" /\ paceElapsed >= 0) =>
     paceDelay = IF paceElapsed < FRAME_DURATION
                   THEN FRAME_DURATION - paceElapsed ELSE 0

(* C9: an FPS report is made only in an iteration that starts 1000 ms or
   more after the window start; the value is frames * 1000 / elapsed for the
   frames counted in the window and the window's length; after it
   frameCount is 0 and the window starts at the iteration's start time. *)
C9_FpsReport ==
  /\ lastFrameTime = winStart
  /\ pc # "fps" => frameCount = winFrames
  /\ (pc \in {"pace", "done"} /\ report # NoReport) =>
        /\ report.elapsed >= FPS_WINDOW
        /\ report.fps[2] > 0
        /\ report.fps[1] * report.elapsed = report.frames * 1000 * report.fps[2]
        /\ fps = report.fps
        /\ frameCount = 0
        /\ lastFrameTime = currentTime
  /\ (pc = "pace" /\ report = NoReport) => currentTime - winStart < FPS_WINDOW

C9_Witness ==
  pc = "pace" /\ report # NoReport /\ report.frames = 2
              /\ report.elapsed > FPS_WINDOW

----------------------------------------------------------------------------
(* Properties of test_connection_simple.cpp, checked under SpecSimple *)

IsAck(ev) == ev.event = "Message" /\ Contains(ev.data, "connection_ack")

(* C10: after ConnectionOpened the session is connected and not
   authenticated; an acknowledgment received while connected makes it
   authenticated; a session sends one device_info message when it becomes
   authenticated and none before or after. *)
C10_AckAuthenticatesOnce ==
  /\ lastEvent = OpenedEvent => (isConnected /\ ~isAuthenticated)
  /\ (pc = "s_dispatch" /\ IsAck(lastEvent)) => (isConnected /\ isAuthenticated)
  /\ devInfoCount \in {0, 1}
  /\ isAuthenticated => devInfoCount = 1
  /\ (isConnected /\ ~isAuthenticated) => devInfoCount = 0
  /\ CountType(sent, "device_info") <= devInfoCount

C10_Witness ==
  /\ pc = "s_dispatch" /\ IsAck(lastEvent)
  /\ isAuthenticated /\ devInfoCount = 1
  /\ ~HasType(sent, "device_info")

----------------------------------------------------------------------------
(* Further properties of main.cpp, checked under Spec *)

(* loop() called connectWebSocket() in the iteration that just ended *)
ConnectCalled == pc = "done" /\ lastWait = SHORT_BACKOFF

(* C11: a connectWebSocket() call made while WiFi.status() is not
   WL_CONNECTED attempts no handshake (client.connect is not called), sends
   no message and leaves the session disconnected. *)
C11_NoHandshakeWithoutWifi ==
  (ConnectCalled /\ ~wifi) =>
     /\ ~handshake.made
     /\ sent = <<>>
     /\ ~isConnected

(* the iteration that just ended was connected after the poll and got no
   frame buffer from esp_camera_fb_get() *)
CaptureFailed == pc = "done" /\ connAfterPoll /\ acquired = 0

(* C12: a capture failure ends the iteration at once: no metadata and no
   binary message is sent, no buffer is returned to the driver, frameCount,
   lastFrameTime and fps keep their values, the session stays connected, and
   a connected iteration always goes on to esp_camera_fb_get(), so the next
   one captures again. *)
C12_CaptureFailureEndsIteration ==
  /\ [](CaptureFailed =>
          /\ fb = NullFb
          /\ ~HasType(sent, "frame") /\ ~HasType(sent, "binary")
          /\ released = 0 /\ outstanding = 0
          /\ isConnected)
  /\ [][(pc = "capture" /\ fb' = NullFb) =>
          /\ pc' = "done"
          /\ UNCHANGED <<frameCount, lastFrameTime, fps, sent, isConnected,
                         outstanding, released, winFrames>>]_vars
  /\ [][(pc = "dispatch" /\ isConnected) => pc' = "capture"]_vars
  /\ [][(pc = "capture") => captures' = captures + 1]_vars

(* two connected iterations in a row whose capture failed, the first of
   which sent a heartbeat *)
C12_Witness ==
  CaptureFailed /\ captures = 2 /\ loops >= 2 /\ hbCount = 1 /\ winFrames = 0
                /\ lastFrameTime = 0 /\ isConnected

(* C13: as long as WiFi has not associated (in main.cpp the association,
   once made, is not modelled as lost) the session is never connected, the
   heartbeat and frame part of loop() is not reached, no heartbeat, metadata
   or binary message is sent and no frame is captured, also after a failed
   camera initialisation; setup()'s association wait is left only when
   WiFi.status() is WL_CONNECTED, every turn of it being one 500 ms delay. *)
C13_NoStreamingWithoutWifi ==
  /\ [](~wifi =>
          /\ ~isConnected /\ ~open
          /\ pc \in {"setup", "wifi", "poll", "dispatch", "done"}
          /\ ~HasType(sent, "heartbeat") /\ ~HasType(sent, "frame")
          /\ ~HasType(sent, "binary")
          /\ hbCount = 0 /\ captures = 0)
  /\ [](pc = "wifi" => now = WIFI_POLL_DELAY * wifiPolls /\ loops = 0)
  /\ [][(pc = "wifi" /\ ~wifi) =>
          /\ pc' = "wifi"
          /\ now' = now + WIFI_POLL_DELAY
          /\ wifiPolls' = wifiPolls + 1]_vars

C13_Witness ==
  pc = "wifi" /\ ~wifi /\ wifiPolls >= 2 /\ now = 2 * WIFI_POLL_DELAY

HasHeader(hdrs, name) == \E i \in 1..Len(hdrs) : hdrs[i].name = name
HasHeaderValue(hdrs, name, value) ==
  \E i \in 1..Len(hdrs) : hdrs[i] = Header(name, value)

(* the headers the addHeader calls of the last connectWebSocket() added *)
LastAdded(hdrs) ==
  IF Len(hdrs) < 5 THEN hdrs ELSE SubSeq(hdrs, Len(hdrs) - 4, Len(hdrs))

(* C14: every client.connect() call of connectWebSocket() is made after the
   same call added Authorization with the value "Bearer " + AUTH_TOKEN,
   X-Device-Type, X-Device-ID and X-Device-Version, so its request carries
   them. *)
C14_HeadersBeforeHandshake ==
  handshake.made =>
    /\ HasHeaderValue(LastAdded(handshake.headers), "Authorization",
                      <<"Bearer ", AUTH_TOKEN>>)
    /\ HasHeader(LastAdded(handshake.headers), "X-Device-Type")
    /\ HasHeader(LastAdded(handshake.headers), "X-Device-ID")
    /\ HasHeader(LastAdded(handshake.headers), "X-Device-Version")
    /\ handshake.headers = headers

(* a reconnect made by loop() that succeeded *)
C14_Witness ==
  /\ ConnectCalled /\ handshake.made /\ isConnected
  /\ HasHeader(handshake.headers, "Authorization")

----------------------------------------------------------------------------
(* Progress of main.cpp's reconnect logic, checked under SpecLive *)

Disconnected == pc = "dispatch" /\ ~isConnected
FrameSent == HasType(sent, "binary")
(* the poll of this iteration found the session closed again after the last
   successful connect *)
ClosedAgain == pc = "dispatch" /\ ~connAfterPoll /\ closedSeen

(* C15: whenever loop() finds the session disconnected it makes a connect
   attempt in that iteration or, after a long backoff, in the next one; a
   long backoff is entered only after at least one attempt since the
   previous one; an accepted attempt leaves the session connected, and from
   there a frame is sent unless the server closes the session again or the
   camera delivers no frame.  The premises leave the iterations the
   statement needs inside the model's bounds. *)
C15_ReconnectProgress ==
  /\ (Disconnected /\ loops + 1 < MaxLoops) ~> ConnectCalled
  /\ [][(lastWait' = LONG_BACKOFF /\ lastWait # LONG_BACKOFF) => sinceReset >= 1]_vars
  /\ [](ConnectCalled => (handshake.made /\ (isConnected <=> lastConnect = "ok")))
  /\ (ConnectCalled /\ isConnected /\ loops + 1 < MaxLoops /\ captures < MaxCaptures)
       ~> (FrameSent \/ ClosedAgain \/ CaptureFailed)

(* a frame goes out after a reconnect that followed a long backoff *)
C15_Witness ==
  FrameSent /\ lastConnect = "ok" /\ loops >= MAX_CONNECTION_ATTEMPTS + 2

----------------------------------------------------------------------------
(* Properties of test_connection.cpp, checked under SpecTest and
   SpecTestLive *)

AllTrue(log) == \A i \in 1..Len(log) : log[i].result

(* C16: setup() runs the WiFi, WebSocket, authentication and camera tests in
   this order whatever the earlier results; the summary says "ALL TESTS
   PASSED" exactly when each of the four returned true; testAuthentication
   called while test_connected is false returns false and sends nothing; the
   client is closed at the end exactly when test_connected is still true. *)
C16_HarnessRunsAllTests ==
  /\ [](/\ Len(testLog) <= Len(TestOrder)
        /\ \A i \in 1..Len(testLog) : testLog[i].test = TestOrder[i]
        /\ all_tests_passed = AllTrue(testLog)
        /\ pc \in {"t_perf", "t_sum", "t_close", "t_loop"} => Len(testLog) = Len(TestOrder)
        /\ verdict # "none" => (verdict = "passed" <=> AllTrue(testLog))
        /\ pc \in {"t_close", "t_loop"} => verdict # "none"
        /\ pc # "t_loop" => ~clientClosed)
  /\ [][(pc = "t_auth" /\ ~isConnected) =>
          /\ sent' = sent
          /\ testLog' = Append(testLog, TestResult("authentication", FALSE))]_vars
  /\ [][pc = "t_close" => clientClosed' = isConnected]_vars

(* the camera test passes after the WiFi, WebSocket and authentication
   tests failed, and the summary reports the failure *)
C16_Witness ==
  /\ pc = "t_loop" /\ verdict = "failed" /\ ~clientClosed
  /\ Len(testLog) = 4
  /\ ~testLog[1].result /\ ~testLog[2].result /\ ~testLog[3].result
  /\ testLog[4].result
  /\ sent = <<>>

(* C17: testWiFiConnection ends: it waits in 500 ms turns while the status
   is not WL_CONNECTED and less than 10000 ms have passed, so it makes at
   most 20 turns; its result is true exactly when the status is WL_CONNECTED
   at the read that follows the wait, and false when WiFi never
   associated. *)
C17_WifiTestTerminates ==
  /\ <>(pc # "t_wifi")
  /\ [](/\ pc = "t_wifi" => /\ USub(now, start_time) = WIFI_POLL_DELAY * wifiPolls
                              /\ USub(now, start_time) <= WIFI_TEST_TIMEOUT
        /\ WIFI_POLL_DELAY * wifiPolls <= WIFI_TEST_TIMEOUT
        /\ pc = "t_ws" => testLog = <<TestResult("wifi", wifi)>>)

(* the wait ran out after 20 turns without an association *)
C17_Witness ==
  /\ pc = "t_ws" /\ ~wifi
  /\ WIFI_POLL_DELAY * wifiPolls = WIFI_TEST_TIMEOUT
  /\ testLog = <<TestResult("wifi", FALSE)>>

----------------------------------------------------------------------------
(* Further properties of test_connection_simple.cpp, checked under
   SpecSimple *)

(* C18: isAuthenticated implies isConnected in every reachable state,
   whatever events the client dispatches and whatever the connect attempts
   return. *)
C18_AuthenticatedImpliesConnected == isAuthenticated => isConnected

(* an authenticated session has just been closed *)
C18_Witness ==
  /\ pc = "s_dispatch" /\ lastEvent.event = "ConnectionClosed"
  /\ devInfoCount = 1
  /\ ~isAuthenticated /\ ~isConnected

----------------------------------------------------------------------------
(* Further properties of main.cpp, checked under Spec *)

(* C19: once ConnectionClosed was dispatched to onEventsCallback no message
   is handed to client.send, by sendLog or otherwise, until a connect
   succeeds (closedSeen holds exactly in between, and the log of sends is
   empty when the poll that dispatches the event starts). *)
C19_NoSendAfterClosed == closedSeen => sent = <<>>

CountHeader(hdrs, name) == Cardinality({i \in 1..Len(hdrs) : hdrs[i].name = name})
RequiredHeaders == {"Authorization", "X-Device-Type", "X-Device-ID", "X-Device-Version"}

(* C20: the client never holds more than one header of a required name, and
   every handshake carries each required header exactly once, however many
   times connectWebSocket() was called. *)
C20_HeadersDoNotGrow ==
  /\ \A name \in RequiredHeaders : CountHeader(headers, name) <= 1
  /\ handshake.made =>
       \A name \in RequiredHeaders : CountHeader(handshake.headers, name) = 1

----------------------------------------------------------------------------
(* Further properties of test_connection_simple.cpp, checked under
   SpecSimple *)

(* C21: a heartbeat is sent only by an authenticated session; a connected
   iteration that finds more than 10000 ms elapsed since the recorded
   heartbeat time records the current time whether or not it sends, and one
   that does not leaves time and sends alone; so any two times recorded one
   after the other, and with them every heartbeat and the time recorded
   before it, sent or silent, are more than 10000 ms apart. *)
C21_HeartbeatOnlyAuthenticated ==
  /\ [](HasType(sent, "heartbeat") => (isAuthenticated /\ isConnected))
  /\ [](hbPrev >= 0 => USub(lastHeartbeat, hbPrev) > SIMPLE_HEARTBEAT_MS)
  /\ [][(pc = "s_dispatch" /\ isConnected) =>
          IF SimpleHeartbeatDue(now, lastHeartbeat)
            THEN /\ lastHeartbeat' = now
                 /\ HasType(sent', "heartbeat") <=> isAuthenticated
            ELSE UNCHANGED <<lastHeartbeat, sent>>]_vars
  /\ [][lastHeartbeat' # lastHeartbeat => (pc = "s_dispatch" /\ isConnected)]_vars

(* the session became authenticated in the iteration after a silent reset:
   more than 10000 ms have passed since the time recorded before it, and no
   heartbeat goes out *)
C21_Witness ==
  /\ pc = "s_done" /\ isAuthenticated /\ HasType(sent, "device_info")
  /\ ~HasType(sent, "heartbeat")
  /\ lastHeartbeat > 0 /\ hbPrev >= 0
  /\ USub(now, lastHeartbeat) = 2 * SIMPLE_LOOP_DELAY
  /\ USub(now, hbPrev) > SIMPLE_HEARTBEAT_MS

----------------------------------------------------------------------------
(* Further properties of main.cpp, checked under Spec *)

(* C22: isConnected becomes true only in a connectWebSocket() call whose
   client.connect succeeded and false only when the poll dispatches
   ConnectionClosed; the steps that send the heartbeat, the metadata, the
   frame and the FPS log leave isConnected alone whatever the sends return,
   the last three leave connectionAttempts alone too and the heartbeat step
   sets it to 0 either way; so an iteration with a failed send stays
   connected. *)
C22_SendsDoNotChangeSession ==
  /\ [][(~isConnected /\ isConnected') =>
          /\ pc = "wifi" \/ pc = "dispatch"
          /\ handshake'.made /\ open']_vars
  /\ [][(isConnected /\ ~isConnected') => (pc = "poll" /\ closedSeen' /\ ~open')]_vars
  /\ [][(isConnected /\ pc \in {"dispatch", "send", "fps"}) =>
          isConnected' = isConnected]_vars
  /\ [][(pc \in {"send", "fps"}) => connectionAttempts' = connectionAttempts]_vars
  /\ [][(pc = "dispatch" /\ isConnected) => connectionAttempts' = 0]_vars
  /\ [](sendFailed => (isConnected /\ connectionAttempts = 0))

(* an iteration whose frame sends failed ends connected *)
C22_Witness ==
  /\ pc = "done" /\ sendFailed /\ HasType(sent, "binary")
  /\ isConnected /\ open /\ connectionAttempts = 0

====
